---- MODULE Spec2Model ----
(***************************************************************************)
(* uppies: a PingSender owns one (Dispatcher, Receiver) pair per target.   *)
(* ping_targets spawns, per pair, the Dispatcher's run loop (the Prober)   *)
(* and a task that polls the Receiver and folds the outcomes into three    *)
(* label-keyed metric instruments (the Collector).                         *)
(*                                                                         *)
(* Tasks run on a multi-threaded runtime, so every interleaving of their   *)
(* steps is a behaviour; the timers only pace the loops.                   *)
(***************************************************************************)
EXTENDS Integers, Sequences, FiniteSets, TLC

\* ---------------------------------------------------------------- bounds
\* Longest target list handed to PingSender::new.
MaxTargets == 2
\* Echo attempts beyond each Dispatcher's first, made by all Dispatchers
\* together, when there are several.
MaxPings == 0
\* Calls of PingSender::new against the one Registry.
MaxNew == 2
\* Largest ping interval, in milliseconds, of the timed runs.
MaxInterval == 4

\* ------------------------------------------------------------- constants
\* tokio::sync::mpsc::channel(5)
ChannelCapacity == 5
\* clap default of --ping-interval-ms
DefaultPingIntervalMs == 250

\* A target string in dotted form, held as the list of its decimal fields.
LOCALHOST == <<127, 0, 0, 1>>
UNBOUND_ADDR == <<10, 0, 0, 200>>
\* "10.0.0.256": a target string that is no IP literal.
BAD_ADDR == <<10, 0, 0, 256>>

TargetStrings == {LOCALHOST, UNBOUND_ADDR, BAD_ADDR}

\* Round-trip times an echo can report, in microseconds.
Durations == {400, 2600}

\* Result<Duration>: what one echo attempt yields and the channel carries.
OkOutcome(d) == <<"Ok", d>>
ErrOutcome == <<"Err", 0>>
Outcomes == {OkOutcome(d) : d \in Durations} \cup {ErrOutcome}
NoOutcome == <<"None", 0>>

\* The instrument names PingSender::new registers, in this order.
InstrumentNames == <<"ping_success_count", "ping_failure_count", "ping_duration_ms">>

VARIABLES
    targets,          \* the target list given to PingSender::new
    registry,         \* names of the instruments held by the Registry
    results,          \* result of each PingSender::new call so far
    pt_pc,            \* where the PingSender / ping_targets is
    pt_i,             \* the pair the ping_targets loop is at
    prober_pc,        \* per pair: position of Dispatcher::run
    collector_pc,     \* per pair: position of the polling task
    chan,             \* per pair: outcomes buffered in the mpsc channel
    pending,          \* per pair: outcome the Dispatcher is waiting to send
    observing,        \* per pair: duration counted but not yet observed
    success_count,    \* IntCounterVec: label -> value
    failure_count,    \* IntCounterVec: label -> value
    ping_duration_ms, \* HistogramVec: label -> [count, sum]
    sent,             \* per pair: outcomes pushed onto the channel, in order
    recvd,            \* per pair: outcomes try_recv has returned, in order
    ping_interval_ms, \* the interval given to PingSender::new
    receive_interval, \* per pair: period of the polling task, in milliseconds
    prober_timer,     \* per pair: milliseconds to the Dispatcher's next tick
    collector_timer   \* per pair: milliseconds to the polling task's next tick

taskVars == <<prober_pc, collector_pc, chan, pending, observing>>
metricVars == <<success_count, failure_count, ping_duration_ms>>
historyVars == <<sent, recvd>>
senderVars == <<registry, results, pt_pc, pt_i>>
clockVars == <<prober_timer, collector_timer>>
vars == <<targets, senderVars, taskVars, metricVars, historyVars,
          ping_interval_ms, receive_interval, clockVars>>

Idx == 1..Len(targets)

\* ------------------------------------------------------------- helpers
RECURSIVE SeqsUpTo(_, _)
SeqsUpTo(S, n) ==
    IF n = 0 THEN {<<>>}
    ELSE LET shorter == SeqsUpTo(S, n - 1)
         IN  shorter \cup {Append(s, x) : s \in {q \in shorter : Len(q) = n - 1}, x \in S}

TargetLists == SeqsUpTo(TargetStrings, MaxTargets)

\* IpAddr::from_str on a dotted string: four fields, each one octet.
IpAddrFromStr(t) ==
    IF Len(t) = 4 /\ \A k \in 1..4 : t[k] \in 0..255 THEN "Ok" ELSE "AddrParseError"

\* Mutant: the duration is handed on in microseconds.
AsMicros(d) == d

\* Duration::as_millis: whole milliseconds, the rest is cut off.
AsMillis(d) == d \div 1000

EmptyVec == [l \in {} |-> 0]

\* MetricVec::with_label_values: the child of the label, created on first use.
WithLabelValues(vec, label, zero) ==
    IF label \in DOMAIN vec THEN vec ELSE (label :> zero) @@ vec

\* Mutant: the child of the label is made and nothing is added to it.
IncByLabelOnly(vec, label, n) == WithLabelValues(vec, label, 0)

\* Mutant: one counter for all targets, every label moves together.
IncByEveryLabel(vec, label, n) ==
    LET v == WithLabelValues(vec, label, 0)
    IN  [l \in DOMAIN v |-> v[l] + n]

\* IntCounter::inc_by on the child of `label`.
IncBy(vec, label, n) ==
    LET v == WithLabelValues(vec, label, 0)
    IN  [v EXCEPT ![label] = @ + n]

EmptyHistogram == [count |-> 0, sum |-> 0]

\* Mutant: a round trip of less than a millisecond is not recorded.
ObserveSkipZero(vec, label, x) ==
    LET v == WithLabelValues(vec, label, EmptyHistogram)
    IN  IF x = 0 THEN v
        ELSE [v EXCEPT ![label] = [count |-> @.count + 1, sum |-> @.sum + x]]

\* Histogram::observe on the child of `label`.
Observe(vec, label, x) ==
    LET v == WithLabelValues(vec, label, EmptyHistogram)
    IN  [v EXCEPT ![label] = [count |-> @.count + 1, sum |-> @.sum + x]]

\* The sending half lives in the Dispatcher: it is gone once run has returned.
SenderDropped(i) == prober_pc[i] = "err"
\* The receiving half lives in the polling task: it is gone once that panicked.
ReceiverDropped(i) == collector_pc[i] = "panicked"

\* Echo attempts made so far (each is pushed or waiting to be pushed).
RECURSIVE SumLen(_, _)
SumLen(f, n) == IF n = 0 THEN 0 ELSE Len(f[n]) + SumLen(f, n - 1)
TotalPings ==
    SumLen(sent, Len(targets)) + Cardinality({i \in Idx : prober_pc[i] = "send"})

\* Echo attempts a run may make beyond each Dispatcher's first: a lone
\* Dispatcher gets enough of them to fill its channel and then wait on it,
\* several Dispatchers share MaxPings.
PingBudget ==
    IF Len(targets) = 1 THEN ChannelCapacity ELSE MaxPings

\* The bound on the run: a Dispatcher's first echo is always made, so that the
\* bound starves no target; the later ones draw on the budget.
MayPing(i) ==
    \/ sent[i] = <<>>
    \/ TotalPings - Cardinality({j \in Idx : sent[j] # <<>>}) < PingBudget

\* ---------------------------------------------------------------- Init
InitWith(interval_ms) ==
    /\ targets \in TargetLists
    /\ registry = {}
    /\ results = <<>>
    /\ pt_pc = "none"
    /\ pt_i = 1
    /\ prober_pc = [i \in Idx |-> "none"]
    /\ collector_pc = [i \in Idx |-> "none"]
    /\ chan = [i \in Idx |-> <<>>]
    /\ pending = [i \in Idx |-> NoOutcome]
    /\ observing = [i \in Idx |-> 0]
    /\ success_count = EmptyVec
    /\ failure_count = EmptyVec
    /\ ping_duration_ms = EmptyVec
    /\ sent = [i \in Idx |-> <<>>]
    /\ recvd = [i \in Idx |-> <<>>]
    /\ ping_interval_ms = interval_ms
    /\ receive_interval = [i \in Idx |-> 0]
    /\ prober_timer = [i \in Idx |-> 0]
    /\ collector_timer = [i \in Idx |-> 0]

\* The state before PingSender::new, with the command line's default interval.
Init == InitWith(DefaultPingIntervalMs)

\* ------------------------------------------------------ PingSender::new
\* Registry::register: an instrument name the registry holds is refused.
Register(reg, name) ==
    IF name \in reg
    THEN [err |-> TRUE, reg |-> reg]
    ELSE [err |-> FALSE, reg |-> reg \cup {name}]

\* Mutant: the instruments are registered once per target instead of once.
RegisterPerTarget(reg, k) ==
    LET names == {InstrumentNames[n] : n \in k..Len(InstrumentNames)}
    IN  IF names \cap reg # {} \/ Len(targets) > 1
        THEN [err |-> TRUE, reg |-> reg \cup names]
        ELSE [err |-> FALSE, reg |-> reg \cup names]

\* The three `metrics.register(..)?` calls, in order, stopping at the first error.
RECURSIVE RegisterFrom(_, _)
RegisterFrom(reg, k) ==
    IF k > Len(InstrumentNames) THEN [err |-> FALSE, reg |-> reg]
    ELSE LET r == Register(reg, InstrumentNames[k])
         IN  IF r.err THEN r ELSE RegisterFrom(r.reg, k + 1)

\* Dispatcher::new: the ICMP client is created (its socket may be refused) and
\* the channel is made; the target string is stored as it is.
DispatcherNew(target, client) ==
    IF client = "Ok" THEN "Ok" ELSE "SocketInitError"

\* Mutant: a target list without entries is refused.
CollectDispatchersNonEmpty(client) ==
    IF Len(targets) > 0 /\ \A i \in Idx : DispatcherNew(targets[i], client[i]) = "Ok"
    THEN "Ok" ELSE "SocketInitError"

\* targets.iter().map(Dispatcher::new).collect::<Result<_>>()?
CollectDispatchers(client) ==
    IF \A i \in Idx : DispatcherNew(targets[i], client[i]) = "Ok"
    THEN "Ok" ELSE "SocketInitError"

NewSender ==
    /\ Len(results) < MaxNew
    /\ LET r == RegisterFrom(registry, 1)
       IN  /\ registry' = r.reg
           /\ IF r.err
              THEN /\ results' = Append(results, "AlreadyReg")
                   /\ UNCHANGED <<pt_pc, prober_pc>>
              ELSE \E client \in [Idx -> {"Ok", "SocketInitError"}] :
                     IF CollectDispatchers(client) = "Ok"
                     THEN /\ results' = Append(results, "Ok")
                          /\ pt_pc' = "constructed"
                          /\ prober_pc' = [i \in Idx |-> "new"]
                     ELSE /\ results' = Append(results, "SocketInitError")
                          /\ UNCHANGED <<pt_pc, prober_pc>>
    /\ UNCHANGED <<targets, ping_interval_ms, receive_interval, pt_i, collector_pc, chan, pending, observing,
                   metricVars, historyVars>>

\* ---------------------------------------------------------- ping_targets
\* u64::div_ceil
DivCeil(a, b) == (a \div b) + (IF a % b > 0 THEN 1 ELSE 0)

\* let receive_interval = dispatcher.ping_interval_ms.div_ceil(2)
ReceiveInterval(interval_ms) == DivCeil(interval_ms, 2)

\* Mutant: the failure counter is not touched at start.
NoInitFailureCount(target) == failure_count

\* failure_count.with_label_values(&[target]).inc_by(0)
InitFailureCount(target) == IncBy(failure_count, target, 0)

\* Loop body up to tokio::spawn(dispatcher.run(None)).
StartProber ==
    /\ pt_pc \in {"constructed", "loop"}
    /\ pt_i <= Len(targets)
    /\ receive_interval' =
          [receive_interval EXCEPT ![pt_i] = ReceiveInterval(ping_interval_ms)]
    /\ failure_count' = InitFailureCount(targets[pt_i])
    /\ prober_pc' = [prober_pc EXCEPT ![pt_i] = "spawned"]
    /\ pt_pc' = "spawn_collector"
    /\ UNCHANGED <<targets, ping_interval_ms, registry, results, pt_i, collector_pc, chan, pending,
                   observing, success_count, ping_duration_ms, historyVars>>

\* tokio::spawn of the polling task, then on to the next pair.
StartCollector ==
    /\ pt_pc = "spawn_collector"
    /\ collector_pc' = [collector_pc EXCEPT ![pt_i] = "tick"]
    /\ pt_i' = pt_i + 1
    /\ pt_pc' = "loop"
    /\ UNCHANGED <<targets, ping_interval_ms, receive_interval, registry, results, prober_pc, chan, pending, observing,
                   metricVars, historyVars>>

\* Mutant: the loop is left after its first pair.
PingTargetsReturnEarly ==
    /\ pt_pc \in {"constructed", "loop"}
    /\ pt_i > 1 \/ Len(targets) = 0
    /\ pt_pc' = "returned"
    /\ UNCHANGED <<targets, ping_interval_ms, receive_interval, registry, results, pt_i, taskVars, metricVars, historyVars>>

\* The loop is over: ping_targets returns, the tasks run on.
PingTargetsReturn ==
    /\ pt_pc \in {"constructed", "loop"}
    /\ pt_i > Len(targets)
    /\ pt_pc' = "returned"
    /\ UNCHANGED <<targets, ping_interval_ms, receive_interval, registry, results, pt_i, taskVars, metricVars, historyVars>>

\* ------------------------------------------------------- Dispatcher::run
\* IpAddr::from_str(&self.target)?  then the pinger is made and the loop entered.
ProberStart(i) ==
    /\ prober_pc[i] = "spawned"
    /\ prober_pc' = [prober_pc EXCEPT ![i] =
            IF IpAddrFromStr(targets[i]) = "Ok" THEN "tick" ELSE "err"]
    /\ UNCHANGED <<targets, ping_interval_ms, receive_interval, senderVars, collector_pc, chan, pending, observing,
                   metricVars, historyVars>>

\* Mutant: try_send in place of send, a full channel is an error.
MpscTrySend(i) ==
    IF ReceiverDropped(i) \/ Len(chan[i]) >= ChannelCapacity THEN "Err" ELSE "Sent"

\* Sender::send: an error once the receiver is gone, the value is queued when
\* there is room, and otherwise the caller waits for room.
MpscSend(i) ==
    IF ReceiverDropped(i) THEN "Err"
    ELSE IF Len(chan[i]) < ChannelCapacity THEN "Sent"
    ELSE "Wait"

\* Mutant: the echo's error leaves the loop (`pinger.ping(..).await?`).
RunLoopNextFailFast(o, r) ==
    IF o = ErrOutcome \/ r = "Err" THEN "err"
    ELSE IF r = "Sent" THEN "tick" ELSE "send"

\* Where run goes after an echo with outcome `o` whose send ended in `r`:
\* only `send(..).await?` leaves the loop.
RunLoopNext(o, r) ==
    CASE r = "Err" -> "err"
      [] r = "Sent" -> "tick"
      [] r = "Wait" -> "send"

\* The effect of send(o) ending in `r` on the pair's channel state.
Deliver(i, o, r) ==
    /\ prober_pc' = [prober_pc EXCEPT ![i] = RunLoopNext(o, r)]
    /\ chan' = IF r = "Sent" THEN [chan EXCEPT ![i] = Append(@, o)] ELSE chan
    /\ sent' = IF r = "Sent" THEN [sent EXCEPT ![i] = Append(@, o)] ELSE sent
    /\ pending' = [pending EXCEPT ![i] = IF r = "Wait" THEN o ELSE NoOutcome]

\* One tick of the loop: the echo, then the send of its outcome.
ProberPing(i, o) ==
    /\ prober_pc[i] = "tick"
    /\ MayPing(i)
    /\ Deliver(i, o, MpscSend(i))
    /\ UNCHANGED <<targets, ping_interval_ms, receive_interval, senderVars, collector_pc, observing, metricVars, recvd>>

\* A send that waited for room is woken: room was made, or the receiver went.
ProberSendResume(i) ==
    /\ prober_pc[i] = "send"
    /\ MpscSend(i) # "Wait"
    /\ Deliver(i, pending[i], MpscSend(i))
    /\ UNCHANGED <<targets, ping_interval_ms, receive_interval, senderVars, collector_pc, observing, metricVars, recvd>>

\* ------------------------------------------------------ the polling task
\* Mutant: a closed channel is reported as an empty one.
TryRecvNeverDisconnected(i) ==
    IF chan[i] # <<>> THEN <<"Ok", Head(chan[i])>> ELSE <<"Empty", NoOutcome>>

\* Receiver::try_recv: buffered values first; Disconnected only when the
\* channel is empty and the sender is gone.
TryRecv(i) ==
    IF chan[i] # <<>> THEN <<"Ok", Head(chan[i])>>
    ELSE IF SenderDropped(i) THEN <<"Disconnected", NoOutcome>>
    ELSE <<"Empty", NoOutcome>>

\* Mutant: the value is read and left in the channel.
AfterRecvPeek(i) == chan

\* The channel after try_recv has returned a value.
AfterRecv(i) == [chan EXCEPT ![i] = Tail(@)]

\* Mutant: the panic takes every polling task down with it.
PanicAbortsAll(i) == [j \in Idx |-> "panicked"]

\* panic!("send disconnected"): the runtime catches it, this task alone ends.
Panic(i) == [collector_pc EXCEPT ![i] = "panicked"]

\* One tick: try_recv and the counter update of the matching arm.
CollectorTick(i) ==
    /\ collector_pc[i] = "tick"
    /\ LET r == TryRecv(i)
           label == targets[i]
       IN  CASE r[1] = "Ok" /\ r[2][1] = "Ok" ->
                  /\ chan' = AfterRecv(i)
                  /\ recvd' = [recvd EXCEPT ![i] = Append(@, r[2])]
                  /\ success_count' = IncBy(success_count, label, 1)
                  /\ observing' = [observing EXCEPT ![i] = r[2][2]]
                  /\ collector_pc' = [collector_pc EXCEPT ![i] = "observe"]
                  /\ UNCHANGED <<failure_count, ping_duration_ms>>
             [] r[1] = "Ok" /\ r[2][1] = "Err" ->
                  /\ chan' = AfterRecv(i)
                  /\ recvd' = [recvd EXCEPT ![i] = Append(@, r[2])]
                  /\ failure_count' = IncBy(failure_count, label, 1)
                  /\ UNCHANGED <<success_count, ping_duration_ms, observing, collector_pc>>
             [] r[1] = "Empty" ->
                  UNCHANGED <<chan, recvd, metricVars, observing, collector_pc>>
             [] r[1] = "Disconnected" ->
                  /\ collector_pc' = Panic(i)
                  /\ UNCHANGED <<chan, recvd, metricVars, observing>>
    /\ UNCHANGED <<targets, ping_interval_ms, receive_interval, senderVars, prober_pc, pending, sent>>

\* ping_duration_ms.with_label_values(..).observe(d.as_millis() as f64)
CollectorObserve(i) ==
    /\ collector_pc[i] = "observe"
    /\ ping_duration_ms' = Observe(ping_duration_ms, targets[i], AsMillis(observing[i]))
    /\ observing' = [observing EXCEPT ![i] = 0]
    /\ collector_pc' = [collector_pc EXCEPT ![i] = "tick"]
    /\ UNCHANGED <<targets, ping_interval_ms, receive_interval, senderVars, prober_pc, chan, pending, success_count,
                   failure_count, historyVars>>

\* ------------------------------------------------------------------ Next
Prober(i) == ProberStart(i) \/ (\E o \in Outcomes : ProberPing(i, o)) \/ ProberSendResume(i)
Collector(i) == CollectorTick(i) \/ CollectorObserve(i)
PingTargets == StartProber \/ StartCollector \/ PingTargetsReturn

\* The untimed runs leave the interval timers out: a tick may come at any
\* moment, which covers every timing of the tasks.
Next ==
    \/ NewSender /\ UNCHANGED clockVars
    \/ StartProber /\ UNCHANGED clockVars
    \/ StartCollector /\ UNCHANGED clockVars
    \/ PingTargetsReturn /\ UNCHANGED clockVars
    \/ \E i \in Idx : Prober(i) /\ UNCHANGED clockVars
    \/ \E i \in Idx : Collector(i) /\ UNCHANGED clockVars

Spec == Init /\ [][Next]_vars

\* The runtime keeps scheduling every task that can take a step.
FairSpec ==
    /\ Spec
    /\ WF_vars(PingTargets /\ UNCHANGED clockVars)
    /\ \A i \in 1..MaxTargets :
          /\ WF_vars(i \in Idx /\ Prober(i) /\ UNCHANGED clockVars)
          /\ WF_vars(i \in Idx /\ Collector(i) /\ UNCHANGED clockVars)

\* ------------------------------------------- runs with a fixed network
\* Dispatcher::run against a target that answers every echo.
ProberAnswered(i) ==
    \/ ProberStart(i)
    \/ \E d \in Durations : ProberPing(i, OkOutcome(d))
    \/ ProberSendResume(i)

NextAnswered ==
    \/ NewSender /\ UNCHANGED clockVars
    \/ StartProber /\ UNCHANGED clockVars
    \/ StartCollector /\ UNCHANGED clockVars
    \/ PingTargetsReturn /\ UNCHANGED clockVars
    \/ \E i \in Idx : ProberAnswered(i) /\ UNCHANGED clockVars
    \/ \E i \in Idx : Collector(i) /\ UNCHANGED clockVars

FairSpecAnswered ==
    /\ Init /\ [][NextAnswered]_vars
    /\ WF_vars(PingTargets /\ UNCHANGED clockVars)
    /\ \A i \in 1..MaxTargets :
          /\ WF_vars(i \in Idx /\ ProberAnswered(i) /\ UNCHANGED clockVars)
          /\ WF_vars(i \in Idx /\ Collector(i) /\ UNCHANGED clockVars)

\* Dispatcher::run against a target of which every echo fails or times out.
ProberUnanswered(i) ==
    \/ ProberStart(i)
    \/ ProberPing(i, ErrOutcome)
    \/ ProberSendResume(i)

NextUnanswered ==
    \/ NewSender /\ UNCHANGED clockVars
    \/ StartProber /\ UNCHANGED clockVars
    \/ StartCollector /\ UNCHANGED clockVars
    \/ PingTargetsReturn /\ UNCHANGED clockVars
    \/ \E i \in Idx : ProberUnanswered(i) /\ UNCHANGED clockVars
    \/ \E i \in Idx : Collector(i) /\ UNCHANGED clockVars

FairSpecUnanswered ==
    /\ Init /\ [][NextUnanswered]_vars
    /\ WF_vars(PingTargets /\ UNCHANGED clockVars)
    /\ \A i \in 1..MaxTargets :
          /\ WF_vars(i \in Idx /\ ProberUnanswered(i) /\ UNCHANGED clockVars)
          /\ WF_vars(i \in Idx /\ Collector(i) /\ UNCHANGED clockVars)

\* ------------------------------------------------- runs on schedule
\* Runs in which both interval timers are kept: a Dispatcher makes its echo
\* and pushes the outcome at its tick, once per ping_interval_ms, the polling
\* task calls try_recv at its tick, once per receive_interval, and no tick is
\* late.  Time is counted in whole milliseconds.

\* tokio::time::interval: the first tick completes at once.
TimedProberStart(i) ==
    /\ ProberStart(i)
    /\ prober_timer' = [prober_timer EXCEPT ![i] = 0]
    /\ UNCHANGED collector_timer

\* interval.tick().await of run has completed; the next is a period away.
TimedProberPing(i, o) ==
    /\ prober_timer[i] = 0
    /\ ProberPing(i, o)
    /\ prober_timer' = [prober_timer EXCEPT ![i] = ping_interval_ms]
    /\ UNCHANGED collector_timer

\* tokio::time::interval of the polling task: the first tick completes at once.
TimedStartCollector ==
    /\ StartCollector
    /\ collector_timer' = [collector_timer EXCEPT ![pt_i] = 0]
    /\ UNCHANGED prober_timer

\* interval.tick().await of the polling task has completed.
TimedCollectorTick(i) ==
    /\ collector_timer[i] = 0
    /\ CollectorTick(i)
    /\ collector_timer' = [collector_timer EXCEPT ![i] = receive_interval[i]]
    /\ UNCHANGED prober_timer

\* A Dispatcher whose tick has come and has not been served.
ProberDue(i) == prober_pc[i] = "tick" /\ prober_timer[i] = 0 /\ MayPing(i)
\* A polling task whose tick has come, or which is between try_recv and observe.
CollectorDue(i) ==
    \/ collector_pc[i] = "tick" /\ collector_timer[i] = 0
    \/ collector_pc[i] = "observe"

\* A millisecond passes: every pair has been spawned (the loop of ping_targets
\* has no await), no tick is due, every running timer moves on.
TimePasses ==
    /\ pt_pc = "returned"
    /\ \A i \in Idx : ~ProberDue(i) /\ ~CollectorDue(i)
    /\ \E i \in Idx : \/ prober_pc[i] = "tick" /\ prober_timer[i] > 0
                      \/ collector_pc[i] = "tick" /\ collector_timer[i] > 0
    /\ prober_timer' = [i \in Idx |->
          IF prober_pc[i] = "tick" /\ prober_timer[i] > 0
          THEN prober_timer[i] - 1 ELSE prober_timer[i]]
    /\ collector_timer' = [i \in Idx |->
          IF collector_pc[i] = "tick" /\ collector_timer[i] > 0
          THEN collector_timer[i] - 1 ELSE collector_timer[i]]
    /\ UNCHANGED <<targets, senderVars, taskVars, metricVars, historyVars,
                   ping_interval_ms, receive_interval>>

InitTimed == \E interval_ms \in 1..MaxInterval : InitWith(interval_ms)

NextTimed ==
    \/ NewSender /\ UNCHANGED clockVars
    \/ StartProber /\ UNCHANGED clockVars
    \/ TimedStartCollector
    \/ PingTargetsReturn /\ UNCHANGED clockVars
    \/ \E i \in Idx : TimedProberStart(i)
    \/ \E i \in Idx, o \in Outcomes : TimedProberPing(i, o)
    \/ \E i \in Idx : TimedCollectorTick(i)
    \/ \E i \in Idx : CollectorObserve(i) /\ UNCHANGED clockVars
    \/ TimePasses

SpecTimed == InitTimed /\ [][NextTimed]_vars

\* ============================================================== claims
\* Helpers of the statements below.
CounterValue(vec, label) == IF label \in DOMAIN vec THEN vec[label] ELSE 0
SampleCount(label) ==
    IF label \in DOMAIN ping_duration_ms THEN ping_duration_ms[label].count ELSE 0
SampleSum(label) ==
    IF label \in DOMAIN ping_duration_ms THEN ping_duration_ms[label].sum ELSE 0

RECURSIVE CountKind(_, _)
CountKind(seq, kind) ==
    IF seq = <<>> THEN 0
    ELSE (IF Head(seq)[1] = kind THEN 1 ELSE 0) + CountKind(Tail(seq), kind)

\* Outcomes of kind `kind` received so far by the Collectors labelled `label`.
RECURSIVE LabelTotal(_, _, _)
LabelTotal(label, kind, n) ==
    IF n = 0 THEN 0
    ELSE (IF targets[n] = label THEN CountKind(recvd[n], kind) ELSE 0)
         + LabelTotal(label, kind, n - 1)

InLoop(i) == prober_pc[i] \in {"tick", "send"}

\* C1: per pair, what the Prober pushed is what its Collector has received
\* followed by what the channel still holds, in the same order (nothing lost,
\* nothing twice), and every received outcome is exactly one increment of the
\* success or failure counter of the pair's label.
C1_NoLossNoDup ==
    /\ \A i \in Idx : sent[i] = recvd[i] \o chan[i]
    /\ \A i \in Idx : Len(sent[i]) = Len(chan[i]) + Len(recvd[i])
    /\ \A label \in TargetStrings :
          /\ CounterValue(success_count, label) = LabelTotal(label, "Ok", Len(targets))
          /\ CounterValue(failure_count, label) = LabelTotal(label, "Err", Len(targets))

\* A pair whose Collector has received a success and a failure, in either
\* order, with a further outcome still buffered.
C1_Witness ==
    \E i \in Idx :
        /\ Len(recvd[i]) >= 2
        /\ recvd[i][1][1] # recvd[i][2][1]
        /\ Len(chan[i]) >= 1

\* C2: a step in which Collector i receives a Success adds 1 to the success
\* counter of its label and hands the duration on to be observed, leaving the
\* failure counter alone; the observation that ends that tick adds one sample
\* (the duration in whole milliseconds) to the label's histogram; receiving a
\* Failure adds 1 to the failure counter and leaves the success counter and
\* the histogram alone; a step in which nothing is received or observed
\* changes no metric value. Other labels never change.
C2_TickEffects ==
    [][\A label \in TargetStrings :
         LET dSucc == CounterValue(success_count', label) - CounterValue(success_count, label)
             dFail == CounterValue(failure_count', label) - CounterValue(failure_count, label)
             dCount == SampleCount(label)' - SampleCount(label)
             dSum == SampleSum(label)' - SampleSum(label)
             gotOk == {i \in Idx : /\ targets[i] = label
                                   /\ Len(recvd'[i]) = Len(recvd[i]) + 1
                                   /\ recvd'[i][Len(recvd'[i])][1] = "Ok"}
             gotErr == {i \in Idx : /\ targets[i] = label
                                    /\ Len(recvd'[i]) = Len(recvd[i]) + 1
                                    /\ recvd'[i][Len(recvd'[i])][1] = "Err"}
             observed == {i \in Idx : /\ targets[i] = label
                                      /\ collector_pc[i] = "observe"
                                      /\ collector_pc'[i] = "tick"}
         IN  /\ gotOk # {} =>
                  /\ dSucc = 1 /\ dFail = 0 /\ dCount = 0 /\ dSum = 0
                  /\ \A i \in gotOk : /\ collector_pc'[i] = "observe"
                                      /\ observing'[i] = recvd'[i][Len(recvd'[i])][2]
             /\ gotErr # {} => dSucc = 0 /\ dFail = 1 /\ dCount = 0 /\ dSum = 0
             /\ observed # {} =>
                  /\ dSucc = 0 /\ dFail = 0 /\ dCount = 1
                  /\ \A i \in observed : dSum = observing[i] \div 1000
             /\ (gotOk = {} /\ gotErr = {} /\ observed = {}) =>
                  dSucc = 0 /\ dFail = 0 /\ dCount = 0 /\ dSum = 0
      ]_vars

\* One label has counted a success, observed its sample and counted a failure,
\* and its Collector is back at a tick on an empty channel.
C2_Witness ==
    \E i \in Idx :
        /\ CounterValue(success_count, targets[i]) >= 1
        /\ SampleCount(targets[i]) >= 1
        /\ SampleSum(targets[i]) >= 2
        /\ CounterValue(failure_count, targets[i]) >= 1
        /\ collector_pc[i] = "tick"
        /\ chan[i] = <<>>

\* C3: a failed echo never ends the run loop. While the receiver lives, a
\* Prober that is in its loop stays in it whatever the echo yields, and an
\* echo that failed is pushed as a Failure (or is the outcome the send is
\* waiting to push).
C3_FailureKeepsLoop ==
    [][\A i \in Idx :
         /\ (InLoop(i) /\ ~ReceiverDropped(i)) => InLoop(i)'
         /\ ProberPing(i, ErrOutcome) =>
              /\ InLoop(i)'
              /\ \/ sent'[i] = Append(sent[i], ErrOutcome)
                 \/ pending'[i] = ErrOutcome /\ prober_pc'[i] = "send"
      ]_vars

\* Three failed echoes in a row have been pushed and the Prober is at its
\* next tick, free to probe again.
C3_Witness ==
    \E i \in Idx :
        /\ Len(sent[i]) >= 3
        /\ \A k \in 1..3 : sent[i][k] = ErrOutcome
        /\ prober_pc[i] = "tick"
        /\ MayPing(i)

\* C4 as stated: a push onto a full channel whose receiver lives fails and
\* ends the run loop, without waiting for room.
C4_FullChannelIsFatal ==
    [][\A i \in Idx :
         (/\ prober_pc[i] = "tick"
          /\ Len(chan[i]) = ChannelCapacity
          /\ ~ReceiverDropped(i)
          /\ prober_pc'[i] # "tick") => prober_pc'[i] = "err"
      ]_vars

\* C4 (amended): a push onto a full channel whose receiver lives does not
\* fail and does not end the loop. The Prober waits in send holding the
\* outcome, the channel is left as it is, and the wait ends only when there
\* is room, with that same outcome appended once and the loop continuing.
C4_FullChannelWaits ==
    [][\A i \in Idx :
         /\ (/\ prober_pc[i] = "tick"
             /\ Len(chan[i]) = ChannelCapacity
             /\ ~ReceiverDropped(i)
             /\ prober_pc'[i] # "tick") =>
                /\ prober_pc'[i] = "send"
                /\ pending'[i] \in Outcomes
                /\ chan'[i] = chan[i]
                /\ sent'[i] = sent[i]
         /\ (/\ prober_pc[i] = "send"
             /\ ~ReceiverDropped(i)
             /\ prober_pc'[i] # "send") =>
                /\ Len(chan[i]) < ChannelCapacity
                /\ prober_pc'[i] = "tick"
                /\ chan'[i] = Append(chan[i], pending[i])
                /\ sent'[i] = Append(sent[i], pending[i])
      ]_vars

\* A Prober waits in send on a full channel whose Collector is alive.
C4_Witness ==
    \E i \in Idx :
        /\ prober_pc[i] = "send"
        /\ Len(chan[i]) = ChannelCapacity
        /\ collector_pc[i] = "tick"

\* C5: the end of one target's Prober (run returns an error) or of its
\* Collector (the panic on a closed channel) is a step that leaves every
\* other pair as it was: its tasks' positions, its channel and the outcome it
\* is sending; and a pair is never ended by anything but its own address or
\* its own closed channel.
C5_FatalToOwnPairOnly ==
    [][\A i \in Idx :
         LET proberEnds == prober_pc[i] # "err" /\ prober_pc'[i] = "err"
             collectorEnds == collector_pc[i] # "panicked" /\ collector_pc'[i] = "panicked"
         IN  /\ (proberEnds \/ collectorEnds) =>
                  \A j \in Idx \ {i} :
                     /\ prober_pc'[j] = prober_pc[j]
                     /\ collector_pc'[j] = collector_pc[j]
                     /\ chan'[j] = chan[j]
                     /\ pending'[j] = pending[j]
             /\ collectorEnds => SenderDropped(i) /\ chan[i] = <<>>
      ]_vars

\* One pair has ended (Prober returned, Collector panicked) while another
\* pair's Prober is in its loop and its Collector has counted an outcome.
C5_Witness ==
    \E i, j \in Idx :
        /\ i # j
        /\ prober_pc[i] = "err"
        /\ collector_pc[i] = "panicked"
        /\ prober_pc[j] = "tick"
        /\ collector_pc[j] = "tick"
        /\ Len(recvd[j]) >= 1

\* C6: once a target's Prober has ended, its Collector ends too: under fair
\* scheduling it does not tick for ever against the closed channel.
C6_DeadProberEndsCollector ==
    \A i \in 1..MaxTargets :
        (i \in Idx /\ prober_pc[i] = "err") ~> (i \in Idx /\ collector_pc[i] = "panicked")

\* A pair whose Prober has ended and whose Collector has ended after it.
C6_Witness ==
    \E i \in Idx : prober_pc[i] = "err" /\ collector_pc[i] = "panicked"

\* C7: from the step in which ping_targets has handled a target on, the
\* failure counter of its label exists, and it reads 0 as long as no
\* Collector of that label has received a Failure; a label that is not in
\* the target list has no failure counter.
C7_FailureCounterInitialised ==
    /\ \A i \in Idx :
          prober_pc[i] \notin {"none", "new"} =>
              /\ targets[i] \in DOMAIN failure_count
              /\ (LabelTotal(targets[i], "Err", Len(targets)) = 0
                    => failure_count[targets[i]] = 0)
    /\ \A label \in TargetStrings :
          (\A i \in Idx : targets[i] # label) => label \notin DOMAIN failure_count

\* Every target has been handled, one label has only counted successes and
\* its failure counter exists and reads 0.
C7_Witness ==
    /\ pt_pc = "returned"
    /\ Len(targets) >= 1
    /\ \E i \in Idx :
          /\ CounterValue(success_count, targets[i]) >= 1
          /\ targets[i] \in DOMAIN failure_count
          /\ failure_count[targets[i]] = 0

\* C8 as stated: no PingSender is constructed from a target list that holds
\* a string that is no IP literal.
C8_InvalidTargetRejected ==
    \A k \in 1..Len(results) :
        results[k] = "Ok" => \A i \in Idx : IpAddrFromStr(targets[i]) = "Ok"

\* C9 as stated: with a misconfigured target in the list, the error reaches
\* the caller before any task is spawned.
C9_NoPartialStart ==
    (\E i \in Idx : IpAddrFromStr(targets[i]) # "Ok") =>
        \A j \in Idx : prober_pc[j] \in {"none", "new"} /\ collector_pc[j] = "none"

\* C10: every PingSender::new after the first against the one registry ends
\* in the duplicate-registration error; the first never does, also when the
\* target list names one target twice, and when it succeeds there is one
\* Dispatcher with its own channel per entry of the list, entries with the
\* same target included.
C10_RegisterOncePerRegistry ==
    /\ \A k \in 2..Len(results) : results[k] = "AlreadyReg"
    /\ Len(results) >= 1 =>
          /\ results[1] \in {"Ok", "SocketInitError"}
          /\ registry = {InstrumentNames[n] : n \in 1..Len(InstrumentNames)}
          /\ results[1] = "Ok" => \A i \in Idx : prober_pc[i] # "none"

\* One target named twice: the first construction succeeded with two
\* Dispatchers of the same label, the second was refused as a duplicate.
C10_Witness ==
    /\ Len(targets) = 2
    /\ targets[1] = targets[2]
    /\ results = <<"Ok", "AlreadyReg">>
    /\ prober_pc[1] # "none"
    /\ prober_pc[2] # "none"

\* C11: ping_targets spawns one Prober task and one Collector task per entry
\* of the target list, pair by pair in list order; when it has returned every
\* entry has both, and each Collector receives from the channel of its own
\* Prober (what it received is a prefix of what that Prober sent).
C11_OnePairPerTarget ==
    /\ \A i \in Idx :
          /\ prober_pc[i] \notin {"none", "new"}
                <=> (i < pt_i \/ (i = pt_i /\ pt_pc = "spawn_collector"))
          /\ collector_pc[i] # "none" <=> (pt_pc # "none" /\ i < pt_i)
          /\ Len(recvd[i]) <= Len(sent[i])
          /\ recvd[i] = SubSeq(sent[i], 1, Len(recvd[i]))
    /\ pt_pc = "returned" =>
          /\ pt_i = Len(targets) + 1
          /\ \A i \in Idx : prober_pc[i] \notin {"none", "new"} /\ collector_pc[i] # "none"

\* ping_targets has returned for two targets while all four tasks are still
\* running, one pair having passed an outcome on already.
C11_Witness ==
    /\ pt_pc = "returned"
    /\ Len(targets) = 2
    /\ \A i \in Idx : prober_pc[i] = "tick" /\ collector_pc[i] = "tick"
    /\ \E i \in Idx : Len(recvd[i]) >= 1

\* C12: with an empty target list the first PingSender::new succeeds and has
\* registered the three instruments, and ping_targets goes straight to its
\* return without entering the loop body.
C12_EmptyTargetList ==
    targets = <<>> =>
        /\ pt_pc \in {"none", "constructed", "returned"}
        /\ results # <<>> =>
              /\ results[1] = "Ok"
              /\ registry = {InstrumentNames[n] : n \in 1..Len(InstrumentNames)}
        /\ pt_pc # "none" => results # <<>>

\* An empty target list, constructed and started: ping_targets has returned.
C12_Witness ==
    /\ targets = <<>>
    /\ results # <<>>
    /\ results[1] = "Ok"
    /\ Cardinality(registry) = 3
    /\ pt_pc = "returned"

\* The child of `label` in a metric vector, or its absence.
EntryOf(vec, label) == IF label \in DOMAIN vec THEN <<"some", vec[label]>> ELSE <<"absent">>

\* Collector i takes a step: it receives, observes or ends.
CollectorStepOf(i) ==
    /\ collector_pc[i] \in {"tick", "observe"}
    /\ collector_pc'[i] # collector_pc[i] \/ recvd'[i] # recvd[i]

\* C17: a step of the Collector of target A changes no metric entry of any
\* other label: for every label B # A the success counter, the failure
\* counter and the histogram are what they were, present or absent.
C17_TargetIsolation ==
    [][\A i \in Idx :
         CollectorStepOf(i) =>
            \A label \in TargetStrings \ {targets[i]} :
               /\ EntryOf(success_count', label) = EntryOf(success_count, label)
               /\ EntryOf(failure_count', label) = EntryOf(failure_count, label)
               /\ EntryOf(ping_duration_ms', label) = EntryOf(ping_duration_ms, label)
      ]_vars

\* Two targets with different labels have each had a success counted and
\* observed, and one of them a failure: every instrument holds both labels.
C17_Witness ==
    \E i, j \in Idx :
        /\ targets[i] # targets[j]
        /\ SampleCount(targets[i]) >= 1
        /\ SampleCount(targets[j]) >= 1
        /\ targets[i] \in DOMAIN failure_count
        /\ targets[j] \in DOMAIN failure_count

\* C18 as stated: a PingSender::new that returns an error leaves the set of
\* registered instruments as it was before the call.
C18_FailedNewKeepsRegistry ==
    [][(/\ Len(results') = Len(results) + 1
        /\ results'[Len(results')] # "Ok") => registry' = registry
      ]_vars

\* C19: for every label the histogram's sample count never passes the
\* success counter, and the counter is ahead by exactly the number of that
\* label's Collectors that have counted a success and not yet observed it, so
\* by at most the number of Collectors of the label, and by nothing when none
\* of them is in between.
C19_HistogramTracksSuccess ==
    \A label \in TargetStrings :
        LET k == Cardinality({i \in Idx : targets[i] = label})
            between == Cardinality({i \in Idx : targets[i] = label /\ collector_pc[i] = "observe"})
            succ == CounterValue(success_count, label)
        IN  /\ SampleCount(label) <= succ
            /\ succ <= SampleCount(label) + k
            /\ succ = SampleCount(label) + between

\* Both Collectors of one label have counted a success and neither has
\* observed it yet: the counter is ahead of the histogram by two.
C19_Witness ==
    \E label \in TargetStrings :
        /\ Cardinality({i \in Idx : targets[i] = label /\ collector_pc[i] = "observe"}) = 2
        /\ CounterValue(success_count, label) = SampleCount(label) + 2

\* C20 (its case does not arise): a Prober that has ended has pushed nothing,
\* because run returns only from the address parse before its loop or from a
\* send whose receiver is gone; no outcome is ever buffered behind a closed
\* sender.
C20_NothingBufferedAtProberEnd ==
    \A i \in Idx : prober_pc[i] = "err" => sent[i] = <<>> /\ chan[i] = <<>>

\* C15: when every echo is answered and the tasks are scheduled fairly, a
\* Prober that has entered its loop leads to its label's success counter and
\* histogram sample count both being above 0, and no label's failure counter
\* ever leaves 0 (two Probers of one target included).
C15_AnsweredEchoesAreCounted ==
    /\ \A i \in 1..MaxTargets :
          (i \in Idx /\ prober_pc[i] = "tick")
             ~> (/\ i \in Idx
                 /\ CounterValue(success_count, targets[i]) > 0
                 /\ SampleCount(targets[i]) > 0)
    /\ [](\A label \in TargetStrings : CounterValue(failure_count, label) = 0)

\* Two Probers of the same target have both had a success counted and
\* observed, and the label's failure counter exists and reads 0.
C15_Witness ==
    /\ Len(targets) = 2
    /\ targets[1] = targets[2]
    /\ \A i \in Idx : i \in Idx /\ Len(recvd[i]) >= 1
    /\ CounterValue(success_count, targets[1]) >= 2
    /\ SampleCount(targets[1]) >= 2
    /\ targets[1] \in DOMAIN failure_count
    /\ failure_count[targets[1]] = 0

\* C16: when every echo fails and the tasks are scheduled fairly, a Prober
\* that has entered its loop leads to a Failure pushed and to its label's
\* failure counter being above 0, while no label's success counter leaves 0
\* and no histogram receives a sample.
C16_FailedEchoesAreCounted ==
    /\ \A i \in 1..MaxTargets :
          (i \in Idx /\ prober_pc[i] = "tick")
             ~> (/\ i \in Idx
                 /\ sent[i] # <<>>
                 /\ sent[i][1] = ErrOutcome
                 /\ CounterValue(failure_count, targets[i]) > 0)
    /\ [](\A label \in TargetStrings :
             CounterValue(success_count, label) = 0 /\ SampleCount(label) = 0)

\* A target's failure counter has gone above 0 while its success counter and
\* histogram have stayed untouched.
C16_Witness ==
    \E i \in Idx :
        /\ Len(recvd[i]) >= 1
        /\ CounterValue(failure_count, targets[i]) >= 1
        /\ targets[i] \notin DOMAIN success_count
        /\ targets[i] \notin DOMAIN ping_duration_ms

\* C13: for every ping interval I >= 1 the period P of a started polling
\* task is strictly smaller than I and at most half of it, 2 * P <= I.
C13_PollingAtMostHalf ==
    \A i \in Idx :
        prober_pc[i] \notin {"none", "new"} =>
            /\ receive_interval[i] < ping_interval_ms
            /\ 2 * receive_interval[i] <= ping_interval_ms

\* C14: in the runs on schedule no channel becomes full, no Dispatcher waits
\* on its send, and a Dispatcher produces an outcome only when every earlier
\* one has been taken by try_recv.
C14_ObservedBeforeNext ==
    \A i \in Idx :
        /\ Len(chan[i]) < ChannelCapacity
        /\ prober_pc[i] # "send"
        /\ Len(sent[i]) <= Len(recvd[i]) + 1

====
